---------------------------- MODULE Spec2Model ----------------------------
(***************************************************************************)
(* A model of the event pipeline of EpisodeSegmenter:                      *)
(*   src/src/episode_segmenter/event_logger.py  (EventLogger,              *)
(*                                               EventAnnotationThread)    *)
(*   src/src/episode_segmenter/events.py        (Event and its variants)   *)
(*   src/src/episode_segmenter/episode_player.py (FileEpisodePlayer)       *)
(*                                                                         *)
(* Threads are modelled by program counters; one action is one atomic step *)
(* of a method (a queue operation, a lock acquisition, a statement inside  *)
(* the locked section).  Python strings are sequences of characters,       *)
(* lengths and offsets are integers, z offsets are counted in tenths       *)
(* (2 is 20, 0.2 is 2).  Python lists that are shared by reference live in *)
(* the heap `lists` and are referred to by their index.                    *)
(***************************************************************************)
EXTENDS Integers, Sequences, FiniteSets, TLC

(***************************************************************************)
(* Bounds of the model                                                     *)
(***************************************************************************)
\* log_event calls made by each producer thread of Spec
EventsPerProducer == 2
\* log_event calls made by the producer of SpecAnn
MaxAnnotated == 6
\* log_event calls made by the producer of SpecNearest
MaxNearest == 4
\* log_event calls made by the producer of SpecQuery
MaxLogged == 3
\* log_event calls made by the producer of SpecSnap
MaxSnapLogged == 3
\* frames of the episode file of SpecPlayer
MaxFrames == 2
\* threads that construct an EventLogger in SpecRegistry
MaxLoggers == 3
\* the last reading of the clock in SpecInteraction
MaxTime == 2

\* the producer threads (detectors)
Producers == {1, 2}
\* the producer that logs in the specifications with a single producer
Solo == CHOOSE p \in Producers : \A q \in Producers : p <= q

(***************************************************************************)
(* Program constants                                                       *)
(***************************************************************************)
\* EventAnnotationThread.__init__ defaults, in tenths
initial_z_offset == 20
step_z_offset == 2
max_annotations == 5

(***************************************************************************)
(* Values                                                                  *)
(***************************************************************************)
\* Python's None where a str is expected (Event.detector_thread_id is
\* Optional[str]); no string of the model contains this character.
None == <<"<None>">>

Letters == <<"a", "b", "c", "d">>
\* the id a detector thread gives its events: prefix "t" and an object name
ThreadIdOf(p) == <<"t", Letters[p]>>
\* the concrete class of the events a producer raises
TypeOf(p) == IF p % 2 = 1 THEN "ContactEvent" ELSE "TranslationEvent"
EventTypes == {"ContactEvent", "TranslationEvent"}

\* events_to_annotate: Optional[List[Type[Event]]]
NoAllowList == [none |-> TRUE, types |-> {}]
AllowList(S) == [none |-> FALSE, types |-> S]
AllowLists == {NoAllowList} \cup {AllowList(S) : S \in SUBSET EventTypes}

\* the placeholder of "no event" in variables that hold an event
NoEvent == [id |-> <<0, 0>>, type |-> "", detector_thread_id |-> None, timestamp |-> 0]

Abs(x) == IF x < 0 THEN -x ELSE x
Range(s) == {s[i] : i \in DOMAIN s}

VARIABLES
    annotate_events,              \* EventLogger.annotate_events
    events_to_annotate,           \* EventLogger.events_to_annotate
    timeline,                     \* EventLogger.timeline
    timeline_per_thread,          \* EventLogger.timeline_per_thread: the dict, in
                                  \* insertion order, of [key, ref]; ref is a list of `lists`
    lists,                        \* the heap of the per-thread lists
    event_queue,                  \* EventLogger.event_queue: the items queued
    event_queue_unfinished,       \* its unfinished_tasks
    event_put,                    \* history: every event put on event_queue, in order
    annotation_queue,             \* EventLogger.annotation_queue: the items queued
    annotation_queue_unfinished,  \* its unfinished_tasks
    annotation_put,               \* history: every event put on annotation_queue, in order
    lock,                         \* EventLogger.lock: 0 or the thread that holds it
    pc,                           \* each producer's position inside log_event
    cur,                          \* each producer's `event` argument
    logged,                       \* each producer's number of calls that returned
    polled,                       \* what the last get_next_event returned
    ann_pc,                       \* the annotation thread's position in run
    ann_event,                    \* its local `event`
    current_annotations,          \* EventAnnotationThread.current_annotations
    kill_event,                   \* EventAnnotationThread.kill_event
    ann_handled,                  \* history: the events run has handled, in order
    world_texts,                  \* the ids of the texts the world shows
    removed_texts,                \* history: the ids World.remove_text was called with
    next_text_id,                 \* the id World.add_text returns next
    join_pc,                      \* the position of the thread that calls join
    snap_events,                  \* what the last get_events returned
    snap_per_thread,              \* what the last get_events_per_thread returned
    query                         \* what the last lookup returned; forgotten when a
                                  \* per-thread timeline changes

VARIABLES
    json_file,                    \* the scene of the episode file: its frames in file order
    ignore_arg,                   \* the objects_to_ignore argument given to FileEpisodePlayer
    player_pc,                    \* the position of the player: constructor, then run
    data_frames,                  \* FileEpisodePlayer.data_frames
    frame_index,                  \* the position of the for loop of run in data_frames
    player_pause,                 \* EpisodePlayer._pause
    player_ready,                 \* EpisodePlayer._ready
    world_objects,                \* the objects of the world, in creation order: [name, pose]
    processed,                    \* history: the frame ids process_objects_data was called for
    processed_at_pause            \* history: the length of `processed` when pause() set the flag

player_vars == <<json_file, ignore_arg, player_pc, data_frames, frame_index, player_pause,
                 player_ready, world_objects, processed, processed_at_pause>>

VARIABLES
    current_logger,               \* EventLogger.current_logger, the class attribute
    ctor_pc                       \* the position of each thread that constructs an EventLogger

registry_vars == <<current_logger, ctor_pc>>

VARIABLES
    ev_a,                         \* an event object
    ev_b,                         \* a second event object, or None
    ev_result,                    \* what the last call on the events returned or raised
    now                           \* time.time()

events_vars == <<ev_a, ev_b, ev_result, now>>

\* the variables outside the event logger
other_vars == <<player_vars, registry_vars, events_vars>>

logger_vars == <<annotate_events, events_to_annotate, timeline, timeline_per_thread, lists,
                 event_queue, event_queue_unfinished, event_put,
                 annotation_queue, annotation_queue_unfinished, annotation_put,
                 lock, pc, cur, logged, polled,
                 ann_pc, ann_event, current_annotations, kill_event, ann_handled,
                 world_texts, removed_texts, next_text_id, join_pc, snap_events, snap_per_thread, query>>

vars == <<annotate_events, events_to_annotate, timeline, timeline_per_thread, lists,
          event_queue, event_queue_unfinished, event_put,
          annotation_queue, annotation_queue_unfinished, annotation_put,
          lock, pc, cur, logged, polled,
          ann_pc, ann_event, current_annotations, kill_event, ann_handled,
          world_texts, removed_texts, next_text_id, join_pc, snap_events, snap_per_thread, query,
          other_vars>>

config_vars == <<annotate_events, events_to_annotate>>
timeline_vars == <<timeline, timeline_per_thread, lists>>
event_queue_vars == <<event_queue, event_queue_unfinished, event_put>>
annotation_queue_vars == <<annotation_queue, annotation_queue_unfinished, annotation_put>>
producer_vars == <<pc, cur, logged>>
annotation_thread_vars == <<ann_pc, ann_event, current_annotations, kill_event, ann_handled,
                            world_texts, removed_texts, next_text_id>>
snapshot_vars == <<snap_events, snap_per_thread>>

(***************************************************************************)
(* The dict timeline_per_thread                                            *)
(***************************************************************************)
Keys(d) == {d[i].key : i \in DOMAIN d}
HasKey(d, k) == k \in Keys(d)
RefOf(d, k) == (CHOOSE i \in DOMAIN d : d[i].key = k)
RefAt(d, k) == d[RefOf(d, k)].ref
\* the list the dict d holds for key k
Bucket(d, k) == lists[RefAt(d, k)]

(***************************************************************************)
(* No episode player has been made                                         *)
(***************************************************************************)
NoIgnoreArg == [given |-> FALSE, ids |-> {}]

NoPlayer ==
    /\ json_file = <<>>
    /\ ignore_arg = NoIgnoreArg
    /\ player_pc = "none"
    /\ data_frames = <<>>
    /\ frame_index = 0
    /\ player_pause = FALSE
    /\ player_ready = FALSE
    /\ world_objects = <<>>
    /\ processed = <<>>
    /\ processed_at_pause = 0

\* the threads that construct an EventLogger each
Loggers == 1..MaxLoggers

\* no EventLogger is under construction by these threads
NoRegistry ==
    /\ current_logger = None
    /\ ctor_pc = [l \in Loggers |-> "none"]

\* no call on an event was made
NoResult == [op |-> "none"]

\* no event object is looked at
NoEvents ==
    /\ ev_a = None
    /\ ev_b = None
    /\ ev_result = NoResult
    /\ now = 0

(***************************************************************************)
(* EventLogger.__init__                                                    *)
(***************************************************************************)
NoQuery == [op |-> "none", raised |-> FALSE, found |-> FALSE, key |-> None,
            event |-> NoEvent, thread_id |-> None, prefix |-> <<>>, name |-> <<>>,
            timestamp |-> 0]
\* a lookup by prefix and object has found its thread id and not yet looked the event up
PendingOps == {"find_for_latest", "find_for_nearest"}
NoSnapshot == [taken |-> FALSE, value |-> <<>>]
NotPolled == [called |-> FALSE, empty |-> TRUE, event |-> NoEvent]

InitLogger(annotate, allow) ==
    /\ annotate_events = annotate
    /\ events_to_annotate = allow
    /\ timeline = <<>>
    /\ timeline_per_thread = <<>>
    /\ lists = <<>>
    /\ event_queue = <<>>
    /\ event_queue_unfinished = 0
    /\ event_put = <<>>
    /\ annotation_queue = <<>>
    /\ annotation_queue_unfinished = 0
    /\ annotation_put = <<>>
    /\ lock = 0
    /\ pc = [p \in Producers |-> "idle"]
    /\ cur = [p \in Producers |-> NoEvent]
    /\ logged = [p \in Producers |-> 0]
    /\ polled = NotPolled
    /\ ann_pc = IF annotate THEN "loop" ELSE "absent"
    /\ ann_event = NoEvent
    /\ current_annotations = <<>>
    /\ kill_event = FALSE
    /\ ann_handled = <<>>
    /\ world_texts = {}
    /\ removed_texts = <<>>
    /\ next_text_id = 1
    /\ join_pc = "idle"
    /\ snap_events = NoSnapshot
    /\ snap_per_thread = NoSnapshot
    /\ query = NoQuery

(***************************************************************************)
(* EventLogger.log_event                                                   *)
(***************************************************************************)
\* ShouldAnnotate without the test of annotate_events
ShouldAnnotateUnguarded(event) ==
    events_to_annotate.none \/ event.type \in events_to_annotate.types

\* line 40: the condition under which the event goes to the annotation queue
ShouldAnnotate(event) ==
    annotate_events /\ (events_to_annotate.none \/ event.type \in events_to_annotate.types)

\* BucketAppend without the membership test: the key gets a new list every time
BucketAppendReset(d, ls, thread_id, event) ==
    IF HasKey(d, thread_id)
    THEN [dict |-> [d EXCEPT ![RefOf(d, thread_id)].ref = Len(ls) + 1],
          lists |-> Append(ls, <<event>>)]
    ELSE [dict |-> Append(d, [key |-> thread_id, ref |-> Len(ls) + 1]),
          lists |-> Append(ls, <<event>>)]

\* BucketAppend with insert(0, event) for append(event)
BucketAppendFront(d, ls, thread_id, event) ==
    IF HasKey(d, thread_id)
    THEN [dict |-> d, lists |-> [ls EXCEPT ![RefAt(d, thread_id)] = <<event>> \o @]]
    ELSE [dict |-> Append(d, [key |-> thread_id, ref |-> Len(ls) + 1]),
          lists |-> Append(ls, <<event>>)]

\* lines 43-45: the dict and the heap after
\*   if thread_id not in d: d[thread_id] = []
\*   d[thread_id].append(event)
BucketAppend(d, ls, thread_id, event) ==
    IF HasKey(d, thread_id)
    THEN [dict |-> d, lists |-> [ls EXCEPT ![RefAt(d, thread_id)] = Append(@, event)]]
    ELSE [dict |-> Append(d, [key |-> thread_id, ref |-> Len(ls) + 1]),
          lists |-> Append(ls, <<event>>)]

\* lines 38-39: a producer calls log_event(event); the event is put on the mirror queue.
\* The event is the n-th of producer p, with the given id, type and timestamp.
LogPut(p, max, thread_ids, types, stamps) ==
    /\ pc[p] = "idle"
    /\ logged[p] < max
    /\ \E tid \in thread_ids, ty \in types, ts \in stamps :
         LET event == [id |-> <<p, logged[p] + 1>>, type |-> ty,
                       detector_thread_id |-> tid, timestamp |-> ts]
         IN /\ cur' = [cur EXCEPT ![p] = event]
            /\ event_queue' = Append(event_queue, event)
            /\ event_put' = Append(event_put, event)
    /\ event_queue_unfinished' = event_queue_unfinished + 1
    /\ pc' = [pc EXCEPT ![p] = "put"]
    /\ UNCHANGED <<other_vars, config_vars, timeline_vars, annotation_queue_vars, lock, logged, polled,
                   annotation_thread_vars, join_pc, snapshot_vars, query>>

\* lines 40-41
LogAnnotationPut(p) ==
    /\ pc[p] = "put"
    /\ IF ShouldAnnotate(cur[p])
       THEN /\ annotation_queue' = Append(annotation_queue, cur[p])
            /\ annotation_queue_unfinished' = annotation_queue_unfinished + 1
            /\ annotation_put' = Append(annotation_put, cur[p])
       ELSE UNCHANGED annotation_queue_vars
    /\ pc' = [pc EXCEPT ![p] = "filtered"]
    /\ UNCHANGED <<other_vars, config_vars, timeline_vars, event_queue_vars, lock, cur, logged, polled,
                   annotation_thread_vars, join_pc, snapshot_vars, query>>

\* line 42: with self.lock
LogAcquire(p) ==
    /\ pc[p] = "filtered"
    /\ lock = 0
    /\ lock' = p
    /\ pc' = [pc EXCEPT ![p] = "locked"]
    /\ UNCHANGED <<other_vars, config_vars, timeline_vars, event_queue_vars, annotation_queue_vars,
                   cur, logged, polled, annotation_thread_vars, join_pc, snapshot_vars, query>>

\* LogAppendThread with the lock given back after the first append
LogAppendThreadUnlocked(p) ==
    /\ pc[p] = "locked"
    /\ LET r == BucketAppend(timeline_per_thread, lists, cur[p].detector_thread_id, cur[p])
       IN /\ timeline_per_thread' = r.dict
          /\ lists' = r.lists
    /\ pc' = [pc EXCEPT ![p] = "bucket"]
    /\ lock' = 0
    /\ query' = NoQuery
    /\ UNCHANGED <<other_vars, config_vars, timeline, event_queue_vars, annotation_queue_vars,
                   cur, logged, polled, annotation_thread_vars, join_pc, snapshot_vars>>

\* lines 43-45
LogAppendThread(p) ==
    /\ pc[p] = "locked"
    /\ LET r == BucketAppend(timeline_per_thread, lists, cur[p].detector_thread_id, cur[p])
       IN /\ timeline_per_thread' = r.dict
          /\ lists' = r.lists
    /\ pc' = [pc EXCEPT ![p] = "bucket"]
    /\ query' = IF query.op \in PendingOps THEN query ELSE NoQuery
    /\ UNCHANGED <<other_vars, config_vars, timeline, event_queue_vars, annotation_queue_vars, lock,
                   cur, logged, polled, annotation_thread_vars, join_pc, snapshot_vars>>

\* line 46 and the end of the with block: the call returns
LogAppendTimeline(p) ==
    /\ pc[p] = "bucket"
    /\ timeline' = Append(timeline, cur[p])
    /\ lock' = 0
    /\ pc' = [pc EXCEPT ![p] = "idle"]
    /\ logged' = [logged EXCEPT ![p] = @ + 1]
    /\ cur' = [cur EXCEPT ![p] = NoEvent]
    /\ UNCHANGED <<other_vars, config_vars, timeline_per_thread, lists, event_queue_vars,
                   annotation_queue_vars, polled, annotation_thread_vars, join_pc,
                   snapshot_vars, query>>

(***************************************************************************)
(* EventLogger.get_next_event                                              *)
(***************************************************************************)
\* GetNextEvent with a queue that gives its newest element
GetNextEventNewest ==
    /\ IF event_queue = <<>>
       THEN /\ polled' = [called |-> TRUE, empty |-> TRUE, event |-> NoEvent]
            /\ UNCHANGED <<event_queue, event_queue_unfinished>>
       ELSE /\ polled' = [called |-> TRUE, empty |-> FALSE,
                          event |-> event_queue[Len(event_queue)]]
            /\ event_queue' = SubSeq(event_queue, 1, Len(event_queue) - 1)
            /\ event_queue_unfinished' = event_queue_unfinished - 1
    /\ UNCHANGED <<other_vars, config_vars, timeline_vars, event_put, annotation_queue_vars, lock,
                   producer_vars, annotation_thread_vars, join_pc, snapshot_vars, query>>

\* lines 136-141: get(block=False), task_done, return; (None, None) on queue.Empty
GetNextEvent ==
    /\ IF event_queue = <<>>
       THEN /\ polled' = [called |-> TRUE, empty |-> TRUE, event |-> NoEvent]
            /\ UNCHANGED <<event_queue, event_queue_unfinished>>
       ELSE /\ polled' = [called |-> TRUE, empty |-> FALSE, event |-> Head(event_queue)]
            /\ event_queue' = Tail(event_queue)
            /\ event_queue_unfinished' = event_queue_unfinished - 1
    /\ UNCHANGED <<other_vars, config_vars, timeline_vars, event_put, annotation_queue_vars, lock,
                   producer_vars, annotation_thread_vars, join_pc, snapshot_vars, query>>

(***************************************************************************)
(* EventLogger.get_events_per_thread, get_events                           *)
(***************************************************************************)
\* lines 59-61: dict.copy() copies the dict, not the lists it refers to
GetEventsPerThread ==
    /\ lock = 0
    /\ snap_per_thread' = [taken |-> TRUE, value |-> timeline_per_thread]
    /\ UNCHANGED <<other_vars, config_vars, timeline_vars, event_queue_vars, annotation_queue_vars, lock,
                   producer_vars, polled, annotation_thread_vars, join_pc, snap_events, query>>

\* lines 67-69: list.copy()
GetEvents ==
    /\ lock = 0
    /\ snap_events' = [taken |-> TRUE, value |-> timeline]
    /\ UNCHANGED <<other_vars, config_vars, timeline_vars, event_queue_vars, annotation_queue_vars, lock,
                   producer_vars, polled, annotation_thread_vars, join_pc, snap_per_thread,
                   query>>

(***************************************************************************)
(* The lookups of EventLogger                                              *)
(***************************************************************************)
\* str.startswith
StartsWith(s, prefix) ==
    Len(prefix) <= Len(s) /\ SubSeq(s, 1, Len(prefix)) = prefix

\* `sub in s` for two strings
Contains(s, sub) ==
    \E i \in 0..(Len(s) - Len(sub)) : SubSeq(s, i + 1, i + Len(sub)) = sub

\* lines 102-103: the keys the comprehension keeps, as indices of the dict
Matches(d, prefix, object_name) ==
    {i \in DOMAIN d : StartsWith(d[i].key, prefix) /\ Contains(d[i].key, object_name)}

Min(S) == CHOOSE x \in S : \A y \in S : x <= y

\* lines 101-104: None has no startswith, so a None key makes the comprehension raise
find_thread_with_prefix_and_object(d, prefix, object_name) ==
    IF HasKey(d, None)
    THEN [raised |-> TRUE, found |-> FALSE, key |-> None]
    ELSE IF Matches(d, prefix, object_name) = {}
         THEN [raised |-> FALSE, found |-> FALSE, key |-> None]
         ELSE [raised |-> FALSE, found |-> TRUE,
               key |-> d[Min(Matches(d, prefix, object_name))].key]

\* Closer with <= for <: the scan keeps the last of the nearest events
CloserOrEqual(distance, best_distance) == distance <= best_distance

\* line 118: min replaces its candidate only by a strictly smaller key
Closer(distance, best_distance) == distance < best_distance

\* line 118: min(..., key=lambda x: abs(x[1] - timestamp)), scanning from the left
RECURSIVE MinScan(_, _, _, _)
MinScan(events, timestamp, i, best) ==
    IF i > Len(events)
    THEN best
    ELSE MinScan(events, timestamp, i + 1,
                 IF Closer(Abs(events[i].timestamp - timestamp),
                           Abs(events[best].timestamp - timestamp))
                 THEN i ELSE best)

\* lines 114-118
get_nearest_event_of_thread(d, thread_id, timestamp) ==
    IF ~HasKey(d, thread_id)
    THEN [raised |-> FALSE, found |-> FALSE, event |-> NoEvent]
    ELSE [raised |-> FALSE, found |-> TRUE,
          event |-> Bucket(d, thread_id)[MinScan(Bucket(d, thread_id), timestamp, 2, 1)]]

\* lines 127-130
get_latest_event_of_thread(d, thread_id) ==
    IF ~HasKey(d, thread_id)
    THEN [raised |-> FALSE, found |-> FALSE, event |-> NoEvent]
    ELSE [raised |-> FALSE, found |-> TRUE,
          event |-> Bucket(d, thread_id)[Len(Bucket(d, thread_id))]]

\* a thread calls find_thread_with_prefix_and_object(prefix, object_name)
QueryFind(prefixes, names) ==
    /\ lock = 0
    /\ \E prefix \in prefixes, object_name \in names :
         LET r == find_thread_with_prefix_and_object(timeline_per_thread, prefix, object_name)
         IN query' = [NoQuery EXCEPT !.op = "find", !.raised = r.raised, !.found = r.found,
                                     !.key = r.key, !.prefix = prefix, !.name = object_name]
    /\ UNCHANGED <<other_vars, config_vars, timeline_vars, event_queue_vars, annotation_queue_vars, lock,
                   producer_vars, polled, annotation_thread_vars, join_pc, snapshot_vars>>

\* a thread calls get_latest_event_of_thread(thread_id)
QueryLatest(thread_ids) ==
    /\ lock = 0
    /\ \E thread_id \in thread_ids :
         LET r == get_latest_event_of_thread(timeline_per_thread, thread_id)
         IN query' = [NoQuery EXCEPT !.op = "latest", !.raised = r.raised, !.found = r.found,
                                     !.event = r.event, !.thread_id = thread_id]
    /\ UNCHANGED <<other_vars, config_vars, timeline_vars, event_queue_vars, annotation_queue_vars, lock,
                   producer_vars, polled, annotation_thread_vars, join_pc, snapshot_vars>>

\* a thread calls get_nearest_event_of_thread(thread_id, timestamp)
QueryNearest(thread_ids, stamps) ==
    /\ lock = 0
    /\ \E thread_id \in thread_ids, timestamp \in stamps :
         LET r == get_nearest_event_of_thread(timeline_per_thread, thread_id, timestamp)
         IN query' = [NoQuery EXCEPT !.op = "nearest", !.raised = r.raised,
                                     !.found = r.found, !.event = r.event,
                                     !.thread_id = thread_id, !.timestamp = timestamp]
    /\ UNCHANGED <<other_vars, config_vars, timeline_vars, event_queue_vars, annotation_queue_vars, lock,
                   producer_vars, polled, annotation_thread_vars, join_pc, snapshot_vars>>

\* lines 78 and 90: the first half of get_latest_event_of_detector_for_object (kind
\* "latest") or get_nearest_event_of_detector_for_object (kind "nearest"); the call
\* ends here if find_thread_with_prefix_and_object raises
DetectorFind(prefixes, names, stamps) ==
    /\ lock = 0
    /\ query.op \notin PendingOps
    /\ \E prefix \in prefixes, object_name \in names, timestamp \in stamps,
          kind \in {"latest", "nearest"} :
         LET r == find_thread_with_prefix_and_object(timeline_per_thread, prefix, object_name)
         IN query' = [NoQuery EXCEPT
                        !.op = IF r.raised THEN "detector_" \o kind ELSE "find_for_" \o kind,
                        !.raised = r.raised, !.key = r.key, !.thread_id = r.key,
                        !.prefix = prefix, !.name = object_name, !.timestamp = timestamp]
    /\ UNCHANGED <<other_vars, config_vars, timeline_vars, event_queue_vars, annotation_queue_vars, lock,
                   producer_vars, polled, annotation_thread_vars, join_pc, snapshot_vars>>

\* lines 79 and 91: the second half, the lookup with the thread id that was found
DetectorLookup ==
    /\ lock = 0
    /\ query.op \in PendingOps
    /\ LET r == IF query.op = "find_for_latest"
                THEN get_latest_event_of_thread(timeline_per_thread, query.key)
                ELSE get_nearest_event_of_thread(timeline_per_thread, query.key,
                                                 query.timestamp)
       IN query' = [query EXCEPT
                      !.op = IF query.op = "find_for_latest" THEN "detector_latest"
                             ELSE "detector_nearest",
                      !.raised = r.raised, !.found = r.found, !.event = r.event]
    /\ UNCHANGED <<other_vars, config_vars, timeline_vars, event_queue_vars, annotation_queue_vars, lock,
                   producer_vars, polled, annotation_thread_vars, join_pc, snapshot_vars>>

(***************************************************************************)
(* EventAnnotationThread                                                   *)
(***************************************************************************)
\* get_next_z_offset with the count taken before pop(0)
get_next_z_offset_before_pop(annotations) ==
    initial_z_offset - step_z_offset * (Len(annotations) + 1)

\* line 171
get_next_z_offset(annotations) == initial_z_offset - step_z_offset * Len(annotations)

\* IsFull with > for >=
IsFullLate(annotations) == Len(annotations) > max_annotations

\* line 181: the visible set is full
IsFull(annotations) == Len(annotations) >= max_annotations

\* what Event.annotate returns (events.py line 51) for the position [1.5, 1, z]
\* and the text id the world gave
TextAnnotation(event, z_offset, text_id) ==
    [text |-> event.id, position |-> <<15, 10, z_offset>>, id |-> text_id]

\* lines 185-191: pop(0), then every remaining annotation is moved up by one step
\* and added to the world again; the i-th gets the text id first_id + i - 1
Recycle(annotations, first_id) ==
    [i \in 1..(Len(annotations) - 1) |->
        [annotations[i + 1] EXCEPT !.position[3] = @ + step_z_offset,
                                   !.id = first_id + i - 1]]

\* line 174: while not self.kill_event.is_set()
AnnLoop ==
    /\ ann_pc = "loop"
    /\ ann_pc' = IF kill_event THEN "dead" ELSE "get"
    /\ UNCHANGED <<other_vars, config_vars, timeline_vars, event_queue_vars, annotation_queue_vars, lock,
                   producer_vars, polled, ann_event, current_annotations, kill_event,
                   ann_handled, world_texts, removed_texts, next_text_id, join_pc, snapshot_vars, query>>

\* lines 175-179: get(block=False); on queue.Empty sleep and continue
AnnGet ==
    /\ ann_pc = "get"
    /\ IF annotation_queue = <<>>
       THEN /\ ann_pc' = "loop"
            /\ UNCHANGED <<annotation_queue, ann_event>>
       ELSE /\ ann_pc' = "task_done"
            /\ ann_event' = Head(annotation_queue)
            /\ annotation_queue' = Tail(annotation_queue)
    /\ UNCHANGED <<other_vars, config_vars, timeline_vars, event_queue_vars, annotation_queue_unfinished,
                   annotation_put, lock, producer_vars, polled, current_annotations,
                   kill_event, ann_handled, world_texts, removed_texts, next_text_id, join_pc,
                   snapshot_vars, query>>

\* line 180
AnnTaskDone ==
    /\ ann_pc = "task_done"
    /\ annotation_queue_unfinished' = annotation_queue_unfinished - 1
    /\ ann_pc' = "handle"
    /\ UNCHANGED <<other_vars, config_vars, timeline_vars, event_queue_vars, annotation_queue,
                   annotation_put, lock, producer_vars, polled, ann_event,
                   current_annotations, kill_event, ann_handled, world_texts, removed_texts, next_text_id,
                   join_pc, snapshot_vars, query>>

\* TextsToRemove with only the annotation that is popped
TextsToRemoveOldest(annotations) == <<annotations[1].id>>

\* lines 183-184: remove_text is called for every visible annotation
TextsToRemove(annotations) == [i \in DOMAIN annotations |-> annotations[i].id]

\* lines 181-195: make room when the visible set is full, annotate the event
AnnHandle ==
    /\ ann_pc = "handle"
    /\ LET full == IsFull(current_annotations)
           removed == IF full THEN TextsToRemove(current_annotations) ELSE <<>>
           kept == IF full THEN Recycle(current_annotations, next_text_id)
                           ELSE current_annotations
           new_id == next_text_id + (IF full THEN Len(kept) ELSE 0)
           readded == IF full THEN {kept[i].id : i \in DOMAIN kept} ELSE {}
           text_ann == TextAnnotation(ann_event, get_next_z_offset(kept), new_id)
       IN /\ current_annotations' = Append(kept, text_ann)
          /\ world_texts' = ((world_texts \ Range(removed)) \cup readded) \cup {new_id}
          /\ removed_texts' = removed_texts \o removed
          /\ next_text_id' = new_id + 1
    /\ ann_handled' = Append(ann_handled, ann_event)
    /\ ann_event' = NoEvent
    /\ ann_pc' = "loop"
    /\ UNCHANGED <<other_vars, config_vars, timeline_vars, event_queue_vars, annotation_queue_vars, lock,
                   producer_vars, polled, kill_event, join_pc, snapshot_vars, query>>

AnnotationThread == AnnLoop \/ AnnGet \/ AnnTaskDone \/ AnnHandle

(***************************************************************************)
(* EventLogger.join                                                        *)
(***************************************************************************)
\* lines 147-148: if self.annotate_events: self.annotation_thread.stop()
JoinStop ==
    /\ join_pc = "idle"
    /\ IF annotate_events
       THEN /\ kill_event' = TRUE
            /\ join_pc' = "thread_join"
       ELSE /\ join_pc' = "event_queue_join"
            /\ UNCHANGED kill_event
    /\ UNCHANGED <<other_vars, config_vars, timeline_vars, event_queue_vars, annotation_queue_vars, lock,
                   producer_vars, polled, ann_pc, ann_event, current_annotations,
                   ann_handled, world_texts, removed_texts, next_text_id, snapshot_vars, query>>

\* line 149: self.annotation_thread.join() returns once run has returned
JoinThread ==
    /\ join_pc = "thread_join"
    /\ ann_pc = "dead"
    /\ join_pc' = "annotation_queue_join"
    /\ UNCHANGED <<other_vars, config_vars, timeline_vars, event_queue_vars, annotation_queue_vars, lock,
                   producer_vars, polled, annotation_thread_vars, snapshot_vars, query>>

\* line 150: Queue.join returns once unfinished_tasks is 0
JoinAnnotationQueue ==
    /\ join_pc = "annotation_queue_join"
    /\ annotation_queue_unfinished = 0
    /\ join_pc' = "event_queue_join"
    /\ UNCHANGED <<other_vars, config_vars, timeline_vars, event_queue_vars, annotation_queue_vars, lock,
                   producer_vars, polled, annotation_thread_vars, snapshot_vars, query>>

\* line 151
JoinEventQueue ==
    /\ join_pc = "event_queue_join"
    /\ event_queue_unfinished = 0
    /\ join_pc' = "returned"
    /\ UNCHANGED <<other_vars, config_vars, timeline_vars, event_queue_vars, annotation_queue_vars, lock,
                   producer_vars, polled, annotation_thread_vars, snapshot_vars, query>>

Join == JoinStop \/ JoinThread \/ JoinAnnotationQueue \/ JoinEventQueue

(***************************************************************************)
(* Spec: producer threads log concurrently while a consumer polls          *)
(* the mirror queue.  The annotation thread, which reads nothing but the   *)
(* annotation queue, takes its steps in SpecAnn.                           *)
(***************************************************************************)
Init ==
    /\ \E annotate \in BOOLEAN, allow \in AllowLists : InitLogger(annotate, allow)
    /\ NoPlayer /\ NoRegistry /\ NoEvents

Log(p) ==
    \/ LogPut(p, EventsPerProducer, {ThreadIdOf(p)}, {TypeOf(p)}, {0})
    \/ LogAnnotationPut(p)
    \/ LogAcquire(p)
    \/ LogAppendThread(p)
    \/ LogAppendTimeline(p)

Next ==
    \/ \E p \in Producers : Log(p)
    \/ GetNextEvent

Spec == Init /\ [][Next]_vars

(***************************************************************************)
(* SpecAnn: one producer logs, the annotation thread renders, a consumer   *)
(* polls the mirror queue and a thread calls join                          *)
(***************************************************************************)
InitAnn == InitLogger(TRUE, NoAllowList) /\ NoPlayer /\ NoRegistry /\ NoEvents

NextAnn ==
    \/ LogPut(Solo, MaxAnnotated, {ThreadIdOf(Solo)}, {TypeOf(Solo)}, {0})
    \/ LogAnnotationPut(Solo)
    \/ LogAcquire(Solo)
    \/ LogAppendThread(Solo)
    \/ LogAppendTimeline(Solo)
    \/ GetNextEvent
    \/ AnnotationThread
    \/ Join

SpecAnn == InitAnn /\ [][NextAnn]_vars

(***************************************************************************)
(* SpecJoin: SpecAnn where log_event is not called any more once join has  *)
(* been called, and where every thread that can take a step takes one in   *)
(* the end: the call of log_event under way goes on, the consumer polls    *)
(* the mirror queue while it holds events, the annotation thread and the   *)
(* thread in join are scheduled                                            *)
(***************************************************************************)
\* a call of log_event that begins before join is called
LogPutBeforeJoin ==
    /\ join_pc = "idle"
    /\ LogPut(Solo, MaxAnnotated, {ThreadIdOf(Solo)}, {TypeOf(Solo)}, {0})

NextJoin ==
    \/ LogPutBeforeJoin
    \/ LogAnnotationPut(Solo)
    \/ LogAcquire(Solo)
    \/ LogAppendThread(Solo)
    \/ LogAppendTimeline(Solo)
    \/ GetNextEvent
    \/ AnnotationThread
    \/ Join

SpecJoin ==
    /\ InitAnn
    /\ [][NextJoin]_vars
    /\ WF_vars(LogAnnotationPut(Solo))
    /\ WF_vars(LogAcquire(Solo))
    /\ WF_vars(LogAppendThread(Solo))
    /\ WF_vars(LogAppendTimeline(Solo))
    /\ WF_vars(GetNextEvent)
    /\ WF_vars(AnnotationThread)
    /\ WF_vars(Join)

(***************************************************************************)
(* SpecNearest: one thread logs events with timestamps for two detectors,  *)
(* another thread asks for the nearest event                               *)
(***************************************************************************)
Stamps == {1, 3, 7}
QueryStamps == {2, 4}
KnownIds == {ThreadIdOf(1), ThreadIdOf(2)}
UnknownId == ThreadIdOf(3)

InitNearest == InitLogger(FALSE, NoAllowList) /\ NoPlayer /\ NoRegistry /\ NoEvents

NextNearest ==
    \/ LogPut(Solo, MaxNearest, KnownIds, {TypeOf(Solo)}, Stamps)
    \/ LogAnnotationPut(Solo)
    \/ LogAcquire(Solo)
    \/ LogAppendThread(Solo)
    \/ LogAppendTimeline(Solo)
    \/ QueryNearest(KnownIds \cup {UnknownId}, QueryStamps)

SpecNearest == InitNearest /\ [][NextNearest]_vars

(***************************************************************************)
(* SpecQuery: one thread logs events, some of them with detector_thread_id *)
(* left unset, another thread looks producers and events up                *)
(***************************************************************************)
Prefixes == {<<"t">>, <<"s">>}
ObjectNames == {<<"a">>, <<"c">>}

InitQuery == InitLogger(FALSE, NoAllowList) /\ NoPlayer /\ NoRegistry /\ NoEvents

NextQuery ==
    \/ LogPut(Solo, MaxLogged, KnownIds \cup {None}, {TypeOf(Solo)}, {1, 3})
    \/ LogAnnotationPut(Solo)
    \/ LogAcquire(Solo)
    \/ LogAppendThread(Solo)
    \/ LogAppendTimeline(Solo)
    \/ QueryFind(Prefixes, ObjectNames)
    \/ QueryLatest(KnownIds \cup {None, UnknownId})
    \/ QueryNearest(KnownIds \cup {None, UnknownId}, {2})

SpecQuery == InitQuery /\ [][NextQuery]_vars

(***************************************************************************)
(* SpecDetector: one thread logs events, some of them with                 *)
(* detector_thread_id left unset, another thread asks for the latest or    *)
(* nearest event of the detector of an object                              *)
(***************************************************************************)
InitDetector == InitLogger(FALSE, NoAllowList) /\ NoPlayer /\ NoRegistry /\ NoEvents

NextDetector ==
    \/ LogPut(Solo, MaxLogged, KnownIds \cup {None}, {TypeOf(Solo)}, {1, 3})
    \/ LogAnnotationPut(Solo)
    \/ LogAcquire(Solo)
    \/ LogAppendThread(Solo)
    \/ LogAppendTimeline(Solo)
    \/ DetectorFind(Prefixes, ObjectNames, {2})
    \/ DetectorLookup

SpecDetector == InitDetector /\ [][NextDetector]_vars

(***************************************************************************)
(* SpecSnap: one thread logs events for two detectors, another thread      *)
(* takes snapshots of the timelines                                        *)
(***************************************************************************)
InitSnap == InitLogger(FALSE, NoAllowList) /\ NoPlayer /\ NoRegistry /\ NoEvents

NextSnap ==
    \/ LogPut(Solo, MaxSnapLogged, KnownIds, {TypeOf(Solo)}, {0})
    \/ LogAnnotationPut(Solo)
    \/ LogAcquire(Solo)
    \/ LogAppendThread(Solo)
    \/ LogAppendTimeline(Solo)
    \/ GetEvents
    \/ GetEventsPerThread

SpecSnap == InitSnap /\ [][NextSnap]_vars

(***************************************************************************)
(* FileEpisodePlayer (episode_player.py).  A frame of the file is          *)
(* [key, objects]: key is the frame id as the JSON key, a string of        *)
(* digits; objects is the frame's dict, in order, of [id, t]: the object   *)
(* id and the position t of its first pose, in millimetres.  Positions of  *)
(* the world are in millimetres too (the division by 1000 is not applied), *)
(* orientations are left out.                                              *)
(***************************************************************************)
Digits == <<"0", "1", "2", "3", "4", "5", "6", "7", "8", "9">>
DigitValue(c) == (CHOOSE i \in DOMAIN Digits : Digits[i] = c) - 1

\* line 90: int(k) for a string of digits
RECURSIVE ParseInt(_)
ParseInt(k) ==
    IF k = <<>> THEN 0
    ELSE 10 * ParseInt(SubSeq(k, 1, Len(k) - 1)) + DigitValue(k[Len(k)])

\* the order of Python strings of digits
RECURSIVE StrLess(_, _)
StrLess(a, b) ==
    IF a = <<>> THEN b # <<>>
    ELSE IF b = <<>> THEN FALSE
    ELSE IF a[1] # b[1] THEN DigitValue(a[1]) < DigitValue(b[1])
    ELSE StrLess(Tail(a), Tail(b))

\* FrameBefore with the keys compared as strings, as without line 90
FrameBeforeAsString(f, g) == StrLess(f.key, g.key)

\* lines 90-91: the sort key is the frame id as an int
FrameBefore(f, g) == ParseInt(f.key) < ParseInt(g.key)

\* line 91: sorted is stable, f goes behind the frames that are not after it
RECURSIVE InsertFrame(_, _)
InsertFrame(sorted, f) ==
    IF sorted = <<>> THEN <<f>>
    ELSE IF FrameBefore(f, sorted[1]) THEN <<f>> \o sorted
    ELSE <<sorted[1]>> \o InsertFrame(Tail(sorted), f)

RECURSIVE SortFrames(_)
SortFrames(frames) ==
    IF frames = <<>> THEN <<>>
    ELSE InsertFrame(SortFrames(SubSeq(frames, 1, Len(frames) - 1)), frames[Len(frames)])

\* lines 89-91: the frames of the scene with int ids, sorted by id
LoadFrames(frames) ==
    LET sorted == SortFrames(frames)
    IN [i \in DOMAIN sorted |-> [id |-> ParseInt(sorted[i].key), objects |-> sorted[i].objects]]

\* lines 176-178
get_object_name(object_id) == <<"episode_object_">> \o object_id

\* lines 165-170: from the camera frame, at [0, 0, 1] m and turned by -pi/2 about x,
\* to the map frame
transform_pose_to_map_frame(position) ==
    <<position[1], position[3], 1000 - position[2]>>

\* line 123 with the mistake of never finding the name
ObjectNeverExists(world, name) == FALSE

\* line 123: obj_name in self.world.get_object_names()
ObjectExists(world, name) == \E i \in DOMAIN world : world[i].name = name

\* line 127: get_object_by_name, as the index of the object in the world
ObjectByName(world, name) == CHOOSE i \in DOMAIN world :
    world[i].name = name /\ \A j \in 1..(i - 1) : world[j].name # name

\* lines 129-130: reset_multiple_objects_base_poses for a dict, in order, of [obj, pose]
RECURSIVE ResetPoses(_, _)
ResetPoses(world, objects_poses) ==
    IF objects_poses = <<>> THEN world
    ELSE ResetPoses([world EXCEPT ![objects_poses[1].obj].pose = objects_poses[1].pose],
                    Tail(objects_poses))

\* the dict objects_poses after objects_poses[obj] = pose
SetPose(objects_poses, obj, pose) ==
    IF \E i \in DOMAIN objects_poses : objects_poses[i].obj = obj
    THEN [i \in DOMAIN objects_poses |->
            IF objects_poses[i].obj = obj THEN [obj |-> obj, pose |-> pose]
            ELSE objects_poses[i]]
    ELSE Append(objects_poses, [obj |-> obj, pose |-> pose])

\* lines 112-130: the world after process_objects_data; objects_data is what is left
\* of the frame's dict, objects_poses the dict collected so far
RECURSIVE process_objects_data(_, _, _)
process_objects_data(world, objects_data, objects_poses) ==
    IF objects_data = <<>>
    THEN ResetPoses(world, objects_poses)
    ELSE LET pose == transform_pose_to_map_frame(objects_data[1].t)
             obj_name == get_object_name(objects_data[1].id)
         IN IF ~ObjectExists(world, obj_name)
            THEN process_objects_data(Append(world, [name |-> obj_name, pose |-> pose]),
                                      Tail(objects_data), objects_poses)
            ELSE process_objects_data(world, Tail(objects_data),
                                      SetPose(objects_poses, ObjectByName(world, obj_name), pose))

\* lines 74-95: FileEpisodePlayer(json_file, ...); the signature has no parameter
\* objects_to_ignore, so a call that gives one raises TypeError
PlayerConstruct ==
    /\ player_pc = "new"
    /\ IF ignore_arg.given
       THEN /\ player_pc' = "type_error"
            /\ UNCHANGED data_frames
       ELSE /\ player_pc' = "created"
            /\ data_frames' = LoadFrames(json_file)
    /\ player_ready' = FALSE
    /\ player_pause' = FALSE
    /\ UNCHANGED <<logger_vars, registry_vars, events_vars, json_file, ignore_arg, frame_index, world_objects,
                   processed, processed_at_pause>>

\* line 104: start() runs run; the for loop takes the first frame, if any
PlayerStart ==
    /\ player_pc = "created"
    /\ frame_index' = 1
    /\ player_pc' = IF data_frames = <<>> THEN "done" ELSE "wait"
    /\ UNCHANGED <<logger_vars, registry_vars, events_vars, json_file, ignore_arg, data_frames, player_pause,
                   player_ready, world_objects, processed, processed_at_pause>>

\* line 59 with the mistake of not reading the flag
ProceedsAlways(pause) == TRUE

\* line 59: _wait_if_paused returns when the flag is not set
Proceeds(pause) == ~pause

\* lines 105, 55-60: _wait_if_paused reads the flag; it sleeps and reads again, or returns
PlayerWaitIfPaused ==
    /\ player_pc = "wait"
    /\ player_pc' = IF Proceeds(player_pause) THEN "process" ELSE "wait"
    /\ UNCHANGED <<logger_vars, registry_vars, events_vars, json_file, ignore_arg, data_frames, frame_index,
                   player_pause, player_ready, world_objects, processed,
                   processed_at_pause>>

\* lines 106-107
PlayerProcess ==
    /\ player_pc = "process"
    /\ world_objects' = process_objects_data(world_objects,
                                             data_frames[frame_index].objects, <<>>)
    /\ processed' = Append(processed, data_frames[frame_index].id)
    /\ player_pc' = "processed"
    /\ UNCHANGED <<logger_vars, registry_vars, events_vars, json_file, ignore_arg, data_frames, frame_index,
                   player_pause, player_ready, processed_at_pause>>

\* PlayerFrameDone with _ready set although the frame was not processed
PlayerFrameDoneEarly ==
    /\ player_pc = "wait"
    /\ player_ready' = TRUE
    /\ UNCHANGED <<logger_vars, registry_vars, events_vars, json_file, ignore_arg, data_frames, frame_index,
                   player_pause, player_pc, world_objects, processed, processed_at_pause>>

\* lines 108-109 and the next round of the for loop
PlayerFrameDone ==
    /\ player_pc = "processed"
    /\ player_ready' = TRUE
    /\ frame_index' = frame_index + 1
    /\ player_pc' = IF frame_index < Len(data_frames) THEN "wait" ELSE "done"
    /\ UNCHANGED <<logger_vars, registry_vars, events_vars, json_file, ignore_arg, data_frames, player_pause,
                   world_objects, processed, processed_at_pause>>

\* lines 43-47: another thread calls pause()
PlayerPause ==
    /\ player_pc \notin {"none", "new", "type_error"}
    /\ player_pause' = TRUE
    /\ processed_at_pause' = IF player_pause THEN processed_at_pause ELSE Len(processed)
    /\ UNCHANGED <<logger_vars, registry_vars, events_vars, json_file, ignore_arg, player_pc, data_frames, frame_index,
                   player_ready, world_objects, processed>>

\* lines 49-53: another thread calls resume()
PlayerResume ==
    /\ player_pc \notin {"none", "new", "type_error"}
    /\ player_pause' = FALSE
    /\ UNCHANGED <<logger_vars, registry_vars, events_vars, json_file, ignore_arg, player_pc, data_frames, frame_index,
                   player_ready, world_objects, processed, processed_at_pause>>

(***************************************************************************)
(* SpecPlayer: an episode file is replayed while another thread pauses and *)
(* resumes the player                                                      *)
(***************************************************************************)
FrameKeys == {<<"1">>, <<"2">>, <<"1", "0">>}
\* the dicts a frame may hold: object 7 at one of two positions or absent, object 5
\* at one position or absent
FrameObjects ==
    {s7 \o s5 : s7 \in {<<>>, <<[id |-> <<"7">>, t |-> <<1000, 0, 0>>]>>,
                        <<[id |-> <<"7">>, t |-> <<0, 2000, 3000>>]>>},
                s5 \in {<<>>, <<[id |-> <<"5">>, t |-> <<0, 0, 0>>]>>}}
Frames == [key : FrameKeys, objects : FrameObjects]
\* the scenes of at most MaxFrames frames; the keys of a JSON object differ
Scenes ==
    UNION {{f \in [1..n -> Frames] : \A i, j \in 1..n : f[i].key = f[j].key => i = j} :
           n \in 0..MaxFrames}
IgnoreArgs == {NoIgnoreArg, [given |-> TRUE, ids |-> {<<"5">>}]}

InitPlayer ==
    /\ InitLogger(FALSE, NoAllowList)
    /\ NoRegistry /\ NoEvents
    /\ json_file \in Scenes
    /\ ignore_arg \in IgnoreArgs
    /\ player_pc = "new"
    /\ data_frames = <<>>
    /\ frame_index = 0
    /\ player_pause = FALSE
    /\ player_ready = FALSE
    /\ world_objects = <<>>
    /\ processed = <<>>
    /\ processed_at_pause = 0

NextPlayer ==
    \/ PlayerConstruct
    \/ PlayerStart
    \/ PlayerWaitIfPaused
    \/ PlayerProcess
    \/ PlayerFrameDone
    \/ PlayerPause
    \/ PlayerResume

SpecPlayer == InitPlayer /\ [][NextPlayer]_vars

(***************************************************************************)
(* The registry EventLogger.current_logger: threads that each construct an *)
(* EventLogger.  The class attribute is read and written without the lock. *)
(***************************************************************************)
\* the EventLogger instance that thread l constructs
InstanceOf(l) == <<"EventLogger", l>>

\* lines 23-29: the call EventLogger(...) sets the fields of the new instance
CtorFields(l) ==
    /\ ctor_pc[l] = "new"
    /\ ctor_pc' = [ctor_pc EXCEPT ![l] = "annotation"]
    /\ UNCHANGED <<logger_vars, player_vars, events_vars, current_logger>>

\* lines 30-33: the annotation queue and thread of the new instance, if it annotates
CtorAnnotation(l) ==
    /\ ctor_pc[l] = "annotation"
    /\ ctor_pc' = [ctor_pc EXCEPT ![l] = "check"]
    /\ UNCHANGED <<logger_vars, player_vars, events_vars, current_logger>>

\* line 34: if EventLogger.current_logger is None
CtorCheck(l) ==
    /\ ctor_pc[l] = "check"
    /\ ctor_pc' = [ctor_pc EXCEPT ![l] = IF current_logger = None THEN "register" ELSE "done"]
    /\ UNCHANGED <<logger_vars, player_vars, events_vars, current_logger>>

\* line 35: EventLogger.current_logger = self
CtorRegister(l) ==
    /\ ctor_pc[l] = "register"
    /\ current_logger' = InstanceOf(l)
    /\ ctor_pc' = [ctor_pc EXCEPT ![l] = "done"]
    /\ UNCHANGED <<logger_vars, player_vars, events_vars>>

InitRegistry ==
    /\ InitLogger(FALSE, NoAllowList)
    /\ NoPlayer /\ NoEvents
    /\ current_logger = None
    /\ ctor_pc = [l \in Loggers |-> "new"]

NextRegistry ==
    \E l \in Loggers :
        \/ CtorFields(l)
        \/ CtorAnnotation(l)
        \/ CtorCheck(l)
        \/ CtorRegister(l)

SpecRegistry == InitRegistry /\ [][NextRegistry]_vars

(***************************************************************************)
(* Event objects (events.py).  An event is a record of its class name and  *)
(* the fields of all the classes, None where its class has no such field;  *)
(* objects are their names, poses their positions, a list of contact       *)
(* points the sequence of the link_a of its points.  An Optional[float] is *)
(* None or Float(t).                                                       *)
(***************************************************************************)
Float(t) == <<"float", t>>
FloatValue(x) == x[2]

\* the base classes of each class, from the class statements
Bases(cls) ==
    CASE cls = "NewObjectEvent" -> {"Event"}
      [] cls = "MotionEvent" -> {"Event"}
      [] cls = "TranslationEvent" -> {"MotionEvent"}
      [] cls = "RotationEvent" -> {"MotionEvent"}
      [] cls = "StopMotionEvent" -> {"MotionEvent"}
      [] cls = "StopTranslationEvent" -> {"StopMotionEvent"}
      [] cls = "StopRotationEvent" -> {"StopMotionEvent"}
      [] cls = "AbstractContactEvent" -> {"Event"}
      [] cls = "ContactEvent" -> {"AbstractContactEvent"}
      [] cls = "LossOfContactEvent" -> {"AbstractContactEvent"}
      [] cls = "AbstractAgentContact" -> {"AbstractContactEvent"}
      [] cls = "AgentContactEvent" -> {"ContactEvent", "AbstractAgentContact"}
      [] cls = "AgentLossOfContactEvent" -> {"LossOfContactEvent", "AbstractAgentContact"}
      [] cls = "LossOfSurfaceEvent" -> {"LossOfContactEvent"}
      [] cls = "AbstractAgentObjectInteractionEvent" -> {"Event"}
      [] cls = "PickUpEvent" -> {"AbstractAgentObjectInteractionEvent"}
      [] cls = "PlacingEvent" -> {"AbstractAgentObjectInteractionEvent"}
      [] OTHER -> {}

\* issubclass(cls, of)
RECURSIVE IsSubclass(_, _)
IsSubclass(cls, of) == cls = of \/ \E base \in Bases(cls) : IsSubclass(base, of)

\* isinstance(other, self.__class__)
IsInstance(other, self) == IsSubclass(other.cls, self.cls)

\* Event.__init__ (lines 20-23) for an object of class cls; timestamp is the argument,
\* None or Float(t)
Event(cls, timestamp) ==
    [cls |-> cls,
     timestamp |-> IF timestamp = None THEN now ELSE FloatValue(timestamp),
     tracked_object |-> None, with_object |-> None, start_pose |-> None,
     contact_points |-> <<>>, latest_contact_points |-> <<>>,
     agent |-> None, participating_object |-> None, end_timestamp |-> None]

\* lines 76-78
NewObjectEvent(cls, new_object, timestamp) ==
    [Event(cls, timestamp) EXCEPT !.tracked_object = new_object]

\* lines 105-110; current_pose is left out
MotionEvent(cls, tracked_object, start_pose, timestamp) ==
    [Event(cls, timestamp) EXCEPT !.tracked_object = tracked_object,
                                  !.start_pose = start_pose]

\* lines 158-166
AbstractContactEvent(cls, contact_points, of_object, with_object, timestamp) ==
    [Event(cls, timestamp) EXCEPT !.contact_points = contact_points,
                                  !.tracked_object = of_object,
                                  !.with_object = with_object]

\* lines 236-243, and 308-314 where with_object is the surface
LossOfContactEvent(cls, contact_points, latest, of_object, with_object, timestamp) ==
    [AbstractContactEvent(cls, contact_points, of_object, with_object, timestamp)
        EXCEPT !.latest_contact_points = latest]

\* lines 319-326
AbstractAgentObjectInteractionEvent(cls, participating_object, agent, timestamp) ==
    [Event(cls, timestamp) EXCEPT !.agent = agent,
                                  !.participating_object = participating_object]

\* line 115, self.tracked_object == other: an Object compared with an event, which
\* is not an Object
ObjectEqualsEvent(object, event) == FALSE

\* lines 112-117
MotionEvent_eq(self, other) ==
    IF ~IsInstance(other, self) THEN FALSE
    ELSE /\ ObjectEqualsEvent(self.tracked_object, other)
         /\ self.start_pose = other.start_pose
         /\ self.timestamp = other.timestamp

\* lines 168-171 with the timestamps compared too
AbstractContactEvent_eq_with_timestamp(self, other) ==
    IF ~IsInstance(other, self) THEN FALSE
    ELSE /\ self.tracked_object = other.tracked_object
         /\ self.with_object = other.with_object
         /\ self.timestamp = other.timestamp

\* lines 168-171
AbstractContactEvent_eq(self, other) ==
    IF ~IsInstance(other, self) THEN FALSE
    ELSE self.tracked_object = other.tracked_object /\ self.with_object = other.with_object

\* lines 80-83
NewObjectEvent_eq(self, other) ==
    IF ~IsInstance(other, self) THEN FALSE
    ELSE self.tracked_object = other.tracked_object

\* lines 328-331
AbstractAgentObjectInteractionEvent_eq(self, other) ==
    IF ~IsInstance(other, self) THEN FALSE
    ELSE self.agent = other.agent /\ self.participating_object = other.participating_object

\* self.__eq__(other): the __eq__ of the class of self
Event_eq(self, other) ==
    IF IsSubclass(self.cls, "MotionEvent") THEN MotionEvent_eq(self, other)
    ELSE IF IsSubclass(self.cls, "AbstractContactEvent")
    THEN AbstractContactEvent_eq(self, other)
    ELSE IF IsSubclass(self.cls, "NewObjectEvent") THEN NewObjectEvent_eq(self, other)
    ELSE AbstractAgentObjectInteractionEvent_eq(self, other)

\* a == b: Python asks b first when the class of b is a proper subclass of the class
\* of a; no __eq__ of events.py returns NotImplemented, so the first answer stands
Equals(a, b) ==
    IF a.cls # b.cls /\ IsSubclass(b.cls, a.cls) THEN Event_eq(b, a) ELSE Event_eq(a, b)

\* hash(self), as the tuple that is hashed: lines 85-86, 119-120, 173-175, 333-334;
\* an object stands for its name
Event_hash(self) ==
    IF IsSubclass(self.cls, "MotionEvent") THEN <<self.tracked_object, self.timestamp>>
    ELSE IF IsSubclass(self.cls, "AbstractContactEvent")
    THEN <<self.tracked_object, IF self.with_object # None THEN self.with_object ELSE <<>>,
           self.cls>>
    ELSE IF IsSubclass(self.cls, "NewObjectEvent") THEN <<self.cls, self.tracked_object>>
    ELSE <<self.agent, self.participating_object, self.cls>>

\* lines 224-228: ContactEvent.main_link
ContactEvent_main_link(self) ==
    IF Len(self.contact_points) > 0
    THEN [raised |-> "no", warned |-> FALSE, value |-> self.contact_points[1]]
    ELSE [raised |-> "no", warned |-> TRUE, value |-> None]

\* lines 256-257: LossOfContactEvent.main_link; [0] of an empty list raises
LossOfContactEvent_main_link(self) ==
    IF Len(self.latest_contact_points) > 0
    THEN [raised |-> "no", warned |-> FALSE, value |-> self.latest_contact_points[1]]
    ELSE [raised |-> "IndexError", warned |-> FALSE, value |-> None]

\* self.main_link: the property of the class of self
main_link(self) ==
    IF IsSubclass(self.cls, "ContactEvent") THEN ContactEvent_main_link(self)
    ELSE LossOfContactEvent_main_link(self)

\* lines 177-180: what set_color raises, and the links it has coloured; the main
\* link first (line 179: an attribute of None cannot be set), then the links of the
\* contact points (232, 261)
set_color(self) ==
    LET link == main_link(self)
    IN IF link.raised # "no"
       THEN [raised |-> link.raised, warned |-> link.warned, coloured |-> {}]
       ELSE IF link.value = None
       THEN [raised |-> "AttributeError", warned |-> link.warned, coloured |-> {}]
       ELSE [raised |-> "no", warned |-> link.warned,
             coloured |-> {link.value} \cup Range(self.contact_points)]

\* lines 339-342
duration(self) ==
    IF self.end_timestamp = None THEN None
    ELSE Float(FloatValue(self.end_timestamp) - self.timestamp)

(***************************************************************************)
(* SpecEq: two events are compared                                         *)
(***************************************************************************)
Objects == {<<"cup">>, <<"bowl">>}
Poses == {<<0, 0, 0>>, <<1, 0, 0>>}
EqStamps == {Float(1), Float(2)}
Links == {<<"cup_link">>}
ContactPoints == {<<>>} \cup {<<link>> : link \in Links}
MotionClasses == {"TranslationEvent", "RotationEvent", "StopTranslationEvent"}
ContactClasses == {"ContactEvent", "AgentContactEvent"}
LossOfContactClasses == {"LossOfContactEvent", "AgentLossOfContactEvent", "LossOfSurfaceEvent"}

MotionEvents ==
    {MotionEvent(cls, object, pose, t) :
        cls \in MotionClasses, object \in Objects, pose \in Poses, t \in EqStamps}

\* the contact events with the given lists of contact points
ContactEvents(points, latest) ==
    {AbstractContactEvent(cls, p, object, with, t) :
        cls \in ContactClasses, p \in points, object \in Objects,
        with \in {None, <<"table">>}, t \in EqStamps}
    \cup
    {LossOfContactEvent(cls, p, l, object, with, t) :
        cls \in LossOfContactClasses, p \in points, l \in latest, object \in Objects,
        with \in {None, <<"table">>}, t \in EqStamps}

NewObjectEvents ==
    {NewObjectEvent("NewObjectEvent", object, t) : object \in Objects, t \in EqStamps}

InteractionEvents ==
    {AbstractAgentObjectInteractionEvent(cls, object, agent, t) :
        cls \in {"PickUpEvent", "PlacingEvent"}, object \in Objects,
        agent \in {None, <<"hand">>}, t \in EqStamps}

EqEvents ==
    MotionEvents \cup ContactEvents({<<>>}, {<<>>}) \cup NewObjectEvents \cup InteractionEvents

InitEq ==
    /\ InitLogger(FALSE, NoAllowList)
    /\ NoPlayer /\ NoRegistry
    /\ now = 0
    /\ ev_a \in EqEvents
    /\ ev_b \in EqEvents
    /\ ev_result = NoResult

\* ev_a == ev_b, hash(ev_a), hash(ev_b)
Compare ==
    /\ ev_result' = [op |-> "eq", value |-> Equals(ev_a, ev_b),
                     hash_a |-> Event_hash(ev_a), hash_b |-> Event_hash(ev_b)]
    /\ UNCHANGED <<logger_vars, player_vars, registry_vars, ev_a, ev_b, now>>

\* ev_b == ev_a, hash(ev_b), hash(ev_a)
CompareSwapped ==
    /\ ev_result' = [op |-> "eq_swapped", value |-> Equals(ev_b, ev_a),
                     hash_a |-> Event_hash(ev_b), hash_b |-> Event_hash(ev_a)]
    /\ UNCHANGED <<logger_vars, player_vars, registry_vars, ev_a, ev_b, now>>

NextEq ==
    \/ Compare
    \/ CompareSwapped

SpecEq == InitEq /\ [][NextEq]_vars

(***************************************************************************)
(* SpecContact: the main link of a contact event is read, the event is     *)
(* coloured                                                                *)
(***************************************************************************)
InitContact ==
    /\ InitLogger(FALSE, NoAllowList)
    /\ NoPlayer /\ NoRegistry
    /\ now = 0
    /\ ev_a \in ContactEvents(ContactPoints, ContactPoints)
    /\ ev_b = None
    /\ ev_result = NoResult

\* self.main_link
ReadMainLink ==
    /\ ev_result' = [op |-> "main_link", result |-> main_link(ev_a)]
    /\ UNCHANGED <<logger_vars, player_vars, registry_vars, ev_a, ev_b, now>>

\* self.set_color(), as Event.annotate calls it (line 45)
SetColor ==
    /\ ev_result' = [op |-> "set_color", result |-> set_color(ev_a)]
    /\ UNCHANGED <<logger_vars, player_vars, registry_vars, ev_a, ev_b, now>>

NextContact ==
    \/ ReadMainLink
    \/ SetColor

SpecContact == InitContact /\ [][NextContact]_vars

(***************************************************************************)
(* SpecInteraction: an interaction event is made, its end is recorded      *)
(***************************************************************************)
InteractionClasses == {"PickUpEvent", "PlacingEvent"}
\* the timestamps a caller may give: None, or a time that may be ahead of the clock
GivenStamps == {None} \cup {Float(t) : t \in 0..(MaxTime + 1)}

\* an interaction event has been made at some reading of the clock
InitInteraction ==
    /\ InitLogger(FALSE, NoAllowList)
    /\ NoPlayer /\ NoRegistry
    /\ now \in 0..MaxTime
    /\ \E cls \in InteractionClasses, agent \in {None, <<"hand">>}, timestamp \in GivenStamps :
          ev_a = AbstractAgentObjectInteractionEvent(cls, <<"cup">>, agent, timestamp)
    /\ ev_b = None
    /\ ev_result = NoResult

\* time.time() moves on
Tick ==
    /\ now < MaxTime
    /\ now' = now + 1
    /\ UNCHANGED <<logger_vars, player_vars, registry_vars, ev_a, ev_b, ev_result>>

\* lines 336-337
RecordEndTimestamp ==
    /\ ev_a' = [ev_a EXCEPT !.end_timestamp = Float(now)]
    /\ ev_result' = NoResult
    /\ UNCHANGED <<logger_vars, player_vars, registry_vars, ev_b, now>>

\* self.duration()
Duration ==
    /\ ev_result' = [op |-> "duration", value |-> duration(ev_a)]
    /\ UNCHANGED <<logger_vars, player_vars, registry_vars, ev_a, ev_b, now>>

NextInteraction ==
    \/ Tick
    \/ RecordEndTimestamp
    \/ Duration

SpecInteraction == InitInteraction /\ [][NextInteraction]_vars

(***************************************************************************)
(* Properties                                                              *)
(***************************************************************************)
\* the k-th event producer p logs in Spec
EventOf(p, k) == [id |-> <<p, k>>, type |-> TypeOf(p),
                  detector_thread_id |-> ThreadIdOf(p), timestamp |-> 0]
\* how often an event occurs in a sequence
Count(seq, event) == Cardinality({i \in DOMAIN seq : seq[i] = event})
\* the position of an event in a sequence that holds it
Pos(seq, event) == CHOOSE i \in DOMAIN seq : seq[i] = event
AllReturned == \A p \in Producers : pc[p] = "idle" /\ logged[p] = EventsPerProducer
\* the keys of the dict are pairwise different
KeysUnique(d) == \A i, j \in DOMAIN d : d[i].key = d[j].key => i = j

\* C1: once P producers have each made N concurrent log_event calls and all calls
\* have returned, the global timeline holds exactly P*N events, every producer's
\* timeline holds exactly its own N events, and every logged event occurs exactly
\* once in the global timeline and exactly once in exactly one bucket, the one
\* keyed by its detector_thread_id.
C1_ExactlyOnce ==
    AllReturned =>
        /\ Len(timeline) = Cardinality(Producers) * EventsPerProducer
        /\ KeysUnique(timeline_per_thread)
        /\ Keys(timeline_per_thread) = {ThreadIdOf(p) : p \in Producers}
        /\ \A p \in Producers :
            /\ Len(Bucket(timeline_per_thread, ThreadIdOf(p))) = EventsPerProducer
            /\ Range(Bucket(timeline_per_thread, ThreadIdOf(p)))
                 = {EventOf(p, k) : k \in 1..EventsPerProducer}
            /\ \A k \in 1..EventsPerProducer :
                /\ Count(timeline, EventOf(p, k)) = 1
                /\ \A i \in DOMAIN timeline_per_thread :
                     Count(lists[timeline_per_thread[i].ref], EventOf(p, k))
                       = IF timeline_per_thread[i].key = ThreadIdOf(p) THEN 1 ELSE 0

\* all calls have returned and the calls of the two producers overlapped: producer 1
\* put its first event on the mirror queue first, producer 2 reached the timeline first
C1_Witness ==
    /\ AllReturned
    /\ event_put[1] = EventOf(1, 1)
    /\ timeline[1] = EventOf(2, 1)

\* C2: every producer's timeline is the sequence of the events whose append it has
\* executed, in call order, also while other producers log.
C2_CallOrder ==
    \A p \in Producers :
        LET n == logged[p] + (IF pc[p] = "bucket" THEN 1 ELSE 0)
        IN IF n = 0
           THEN ~HasKey(timeline_per_thread, ThreadIdOf(p))
           ELSE /\ HasKey(timeline_per_thread, ThreadIdOf(p))
                /\ Bucket(timeline_per_thread, ThreadIdOf(p)) = [k \in 1..n |-> EventOf(p, k)]

\* producer 1 has logged two events, with an event of producer 2 between them in
\* the global timeline
C2_Witness ==
    /\ Len(timeline) >= 3
    /\ timeline[1] = EventOf(1, 1)
    /\ timeline[2] = EventOf(2, 1)
    /\ timeline[3] = EventOf(1, 2)
    /\ Len(Bucket(timeline_per_thread, ThreadIdOf(1))) = 2

\* C3: the events of the global timeline were put on the mirror queue, and the
\* annotatable ones on the annotation queue, in the order they have in the timeline.
C3_QueueOrderIsTimelineOrder ==
    \A i, j \in DOMAIN timeline :
        i < j =>
            /\ Pos(event_put, timeline[i]) < Pos(event_put, timeline[j])
            /\ (timeline[i] \in Range(annotation_put) /\ timeline[j] \in Range(annotation_put))
                 => Pos(annotation_put, timeline[i]) < Pos(annotation_put, timeline[j])

\* line 40 as the claim states it
Annotatable(event) ==
    annotate_events
    /\ (events_to_annotate = NoAllowList \/ event.type \in events_to_annotate.types)
\* the events whose log_event call is past line 41
PastFilter == Range(timeline) \cup {cur[p] : p \in {q \in Producers :
                                        pc[q] \in {"filtered", "locked", "bucket"}}}
\* the events whose log_event call is past line 39
PastPut == Range(timeline) \cup {cur[p] : p \in {q \in Producers : pc[q] # "idle"}}

\* C10: an event is put on the annotation queue iff annotation is enabled and the
\* allow-list is absent or holds the event's type; with annotation disabled nothing
\* reaches the annotation queue; every logged event is put on the mirror queue.
C10_AnnotationFilter ==
    /\ \A event \in PastFilter : Count(annotation_put, event) = IF Annotatable(event) THEN 1 ELSE 0
    /\ \A event \in Range(annotation_put) : Annotatable(event)
    /\ ~annotate_events => annotation_put = <<>> /\ annotation_queue = <<>>
    /\ \A event \in PastPut : Count(event_put, event) = 1

\* with the allow-list [ContactEvent] all four events were logged: the two contact
\* events went to the annotation queue, the two translation events did not
C10_Witness ==
    /\ AllReturned
    /\ annotate_events
    /\ events_to_annotate = AllowList({"ContactEvent"})
    /\ annotation_put = <<EventOf(1, 1), EventOf(1, 2)>>
    /\ EventOf(2, 1) \in Range(event_put)

\* C4: join signals the annotation thread to stop only after the queues are drained
\* and acknowledged: the stop signal is never issued while undelivered events remain
\* in the annotation queue.
C4_StopAfterDrain ==
    [][(~kill_event /\ kill_event') =>
          /\ annotation_queue = <<>>
          /\ annotation_queue_unfinished = 0]_vars

\* the step of run that handles an event while max_annotations are visible
HandlesWhenFull ==
    /\ ann_pc = "handle"
    /\ ann_pc' = "loop"
    /\ Len(current_annotations) = max_annotations

\* what C8 says of that step, but for the offset of the new annotation
EvictsAndRaises ==
    /\ Len(current_annotations') = max_annotations
    /\ current_annotations[1].id \notin world_texts'
    /\ \A i \in DOMAIN current_annotations' : current_annotations'[i].text # current_annotations[1].text
    /\ \A i \in 1..(max_annotations - 1) :
        /\ current_annotations'[i].text = current_annotations[i + 1].text
        /\ current_annotations'[i].position[3]
             = current_annotations[i + 1].position[3] + step_z_offset
    /\ current_annotations'[max_annotations].text = ann_event.id

\* C8 as stated: with 5 annotations visible, handling a further event evicts the
\* oldest, raises the other 4 by one step and places the new one at
\* initial_z_offset - step_z_offset * 5.
C8_NewAtFiveSteps ==
    [][HandlesWhenFull =>
          /\ EvictsAndRaises
          /\ current_annotations'[max_annotations].position[3]
               = initial_z_offset - step_z_offset * 5]_vars

\* C8 as amended: the new annotation is placed at initial_z_offset - step_z_offset * 4,
\* the offset of the slot the shift frees.
C8_NewAtFourSteps ==
    [][HandlesWhenFull =>
          /\ EvictsAndRaises
          /\ current_annotations'[max_annotations].position[3]
               = initial_z_offset - step_z_offset * 4]_vars

\* the 6th event has just been handled
C8_Witness ==
    /\ Len(ann_handled) = max_annotations + 1
    /\ Len(current_annotations) = max_annotations
    /\ current_annotations[max_annotations].text = ann_handled[max_annotations + 1].id
    /\ current_annotations[1].text = ann_handled[2].id

C5_SnapshotUnchanged ==
    [][/\ (snap_events.taken /\ snap_events' = snap_events)
            => snap_events'.value = snap_events.value
       /\ (snap_per_thread.taken /\ snap_per_thread' = snap_per_thread)
            => \A i \in DOMAIN snap_per_thread.value :
                   lists'[snap_per_thread.value[i].ref] = lists[snap_per_thread.value[i].ref]]_vars

\* C6: for a known producer, get_nearest_event_of_thread returns the event of the
\* producer's timeline at minimal distance from the queried timestamp, and of several
\* such events the one stored first.
C6_NearestFirst ==
    (query.op = "nearest" /\ HasKey(timeline_per_thread, query.thread_id)) =>
        /\ query.found
        /\ ~query.raised
        /\ \E i \in DOMAIN Bucket(timeline_per_thread, query.thread_id) :
            LET events == Bucket(timeline_per_thread, query.thread_id)
                distance(j) == Abs(events[j].timestamp - query.timestamp)
            IN /\ events[i] = query.event
               /\ \A j \in DOMAIN events : distance(i) <= distance(j)
               /\ \A j \in 1..(i - 1) : distance(i) < distance(j)

\* the timestamps of a sequence of events
TimestampsOf(events) == [i \in DOMAIN events |-> events[i].timestamp]

\* the timeline of a producer has the timestamps [1, 3, 3, 7], the query at 4
\* returned the first of the two events at 3
C6_Witness ==
    /\ query.op = "nearest"
    /\ query.timestamp = 4
    /\ HasKey(timeline_per_thread, query.thread_id)
    /\ TimestampsOf(Bucket(timeline_per_thread, query.thread_id)) = <<1, 3, 3, 7>>
    /\ query.event = Bucket(timeline_per_thread, query.thread_id)[2]

\* C7: the lookups never raise; for an unknown producer or a prefix and object name
\* that match no producer they return None.
C7_LookupsNeverRaise ==
    /\ ~query.raised
    /\ (query.op \in {"latest", "nearest"} /\ ~HasKey(timeline_per_thread, query.thread_id))
         => ~query.found
    /\ (query.op = "find"
        /\ \A k \in Keys(timeline_per_thread) \ {None} :
             ~(StartsWith(k, query.prefix) /\ Contains(k, query.name)))
         => ~query.found

\* C18: get_next_event never blocks; with events in the mirror queue it takes the
\* oldest one, which is the next of the events in the order they were put, and
\* acknowledges it; with an empty queue it returns the empty sentinel; the timeline
\* and the per-producer timelines stay as they are.
C18_PollNext ==
    /\ [](ENABLED GetNextEvent)
    /\ [][polled' # polled =>
            /\ polled'.called
            /\ IF event_queue = <<>>
               THEN /\ polled'.empty
                    /\ polled'.event = NoEvent
                    /\ event_queue' = <<>>
                    /\ event_queue_unfinished' = event_queue_unfinished
               ELSE /\ ~polled'.empty
                    /\ polled'.event = event_put[Len(event_put) - Len(event_queue) + 1]
                    /\ event_queue' = Tail(event_queue)
                    /\ event_queue_unfinished' = event_queue_unfinished - 1
            /\ timeline' = timeline
            /\ timeline_per_thread' = timeline_per_thread
            /\ lists' = lists]_vars

\* a second call returned the second event that was put, a third event waits, and
\* events are in the timeline
C18_Witness ==
    /\ polled.called
    /\ ~polled.empty
    /\ Len(event_put) >= 3
    /\ polled.event = event_put[2]
    /\ event_queue = <<event_put[3]>>
    /\ timeline # <<>>

\* C21: with annotation on, a consumer that polls every event of the mirror queue
\* and an annotation thread that is scheduled, a call of join returns in the end,
\* whatever waits in the annotation queue when it is made.
C21_JoinReturns ==
    [](join_pc = "thread_join" /\ pc[Solo] = "idle" => <>(join_pc = "returned"))

\* C22: the lookups by detector prefix and object return None when no producer id
\* of the logger starts with the prefix and contains the object's name, and an
\* event they return is of a producer whose id does; this also with events logged
\* with detector_thread_id unset.
C22_DetectorLookup ==
    query.op \in {"detector_latest", "detector_nearest"} =>
        /\ ~query.raised
        /\ query.found =>
             /\ query.event.detector_thread_id # None
             /\ StartsWith(query.event.detector_thread_id, query.prefix)
             /\ Contains(query.event.detector_thread_id, query.name)
        /\ (\A k \in Keys(timeline_per_thread) \ {None} :
               ~(StartsWith(k, query.prefix) /\ Contains(k, query.name)))
             => ~query.found

\* C24: an event that get_next_event returns is, at the moment it is returned, in
\* the global timeline and in the timeline of its producer.
C24_PolledIsLogged ==
    [][(polled' # polled /\ ~polled'.empty) =>
          /\ polled'.event \in Range(timeline')
          /\ HasKey(timeline_per_thread', polled'.event.detector_thread_id)
          /\ polled'.event \in Range(lists'[RefAt(timeline_per_thread',
                                                  polled'.event.detector_thread_id)])]_vars

\* the events of producer id thread_id in the global timeline, in order
EventsOfThread(thread_id) ==
    SelectSeq(timeline, LAMBDA event : event.detector_thread_id = thread_id)

\* the sum of the lengths of the first n per-thread timelines
RECURSIVE SumOfLengths(_)
SumOfLengths(n) ==
    IF n = 0 THEN 0 ELSE SumOfLengths(n - 1) + Len(lists[timeline_per_thread[n].ref])

\* C25: while no log_event call is inside its locked section, the events of each
\* producer id in the global timeline, in order, are the per-producer timeline of
\* that id, and the lengths of the per-producer timelines add up to the length of
\* the global timeline.
C25_TimelinesAgree ==
    lock = 0 =>
        /\ \A i \in DOMAIN timeline_per_thread :
              lists[timeline_per_thread[i].ref] = EventsOfThread(timeline_per_thread[i].key)
        /\ \A i \in DOMAIN timeline : HasKey(timeline_per_thread, timeline[i].detector_thread_id)
        /\ SumOfLengths(Len(timeline_per_thread)) = Len(timeline)

\* two producers have logged in turn, one of them has begun its next call and sits
\* before the locked section
C25_Witness ==
    /\ lock = 0
    /\ Len(timeline) = 3
    /\ timeline[1].detector_thread_id # timeline[2].detector_thread_id
    /\ timeline[3].detector_thread_id = timeline[1].detector_thread_id
    /\ Len(timeline_per_thread) = 2
    /\ \E p \in Producers : pc[p] = "filtered"

\* the text ids the visible annotations hold
VisibleIds == {current_annotations[i].id : i \in DOMAIN current_annotations}

\* C26: when the annotation thread has handled an event, the texts alive in the world
\* are the texts of the visible annotations; no text id was removed twice, every id
\* the world gave is either alive or was removed, and none is both.
C26_TextsAreVisible ==
    /\ world_texts = VisibleIds
    /\ Cardinality(VisibleIds) = Len(current_annotations)
    /\ \A i, j \in DOMAIN removed_texts : removed_texts[i] = removed_texts[j] => i = j
    /\ Range(removed_texts) \cap world_texts = {}
    /\ Range(removed_texts) \cup world_texts = 1..(next_text_id - 1)

\* the stack has recycled: the texts of the first five annotations were removed, the
\* world shows the four re-created ones and the new one
C26_Witness ==
    /\ Len(ann_handled) = max_annotations + 1
    /\ Len(removed_texts) = max_annotations
    /\ Cardinality(world_texts) = max_annotations
    /\ world_texts \cap Range(removed_texts) = {}

(***************************************************************************)
(* Properties of the episode player                                        *)
(***************************************************************************)
\* the frame ids of the episode file
FrameIds == {ParseInt(json_file[i].key) : i \in DOMAIN json_file}

\* the number of frame ids of the file below id
Rank(id) == Cardinality({other \in FrameIds : other < id})

\* C11: whatever the pause() and resume() calls, the frames are processed in
\* ascending order of their integer ids, each at most once and none skipped: what
\* has been processed is always the first frames of the file in that order, and all
\* of them when run has returned.
C11_AscendingOnce ==
    /\ Len(processed) <= Cardinality(FrameIds)
    /\ \A i \in DOMAIN processed : processed[i] \in FrameIds /\ Rank(processed[i]) = i - 1
    /\ player_pc = "done" => Len(processed) = Cardinality(FrameIds)

\* the file holds frame 10 before frame 2; the player was paused after frame 2,
\* resumed, and went on with frame 10
C11_Witness ==
    /\ Len(json_file) = 2
    /\ json_file[1].key = <<"1", "0">>
    /\ json_file[2].key = <<"2">>
    /\ processed = <<2, 10>>
    /\ processed_at_pause = 1
    /\ ~player_pause

\* C12: from a pause() until the resume() after it the player processes at most one
\* more frame, the one that had passed its pause check.
C12_AtMostOneAfterPause ==
    player_pause => Len(processed) <= processed_at_pause + 1

\* pause() came when frame 1 had passed its check: the frame was processed, and
\* the next round waits
C12_Witness ==
    /\ player_pause
    /\ processed_at_pause = 0
    /\ Len(processed) = 1
    /\ player_pc = "wait"
    /\ Len(data_frames) > 1

\* C13: the ready flag is False after construction, True only when a frame has been
\* processed, never goes back to False, and stays False for an episode of no frames.
C13_ReadyFlag ==
    /\ [](player_pc = "created" => ~player_ready)
    /\ [](player_ready => Len(processed) >= 1)
    /\ [][player_ready => player_ready']_vars
    /\ [](json_file = <<>> => ~player_ready)

\* the flag was set after the first of two frames
C13_Witness ==
    /\ player_ready
    /\ Len(processed) = 1
    /\ player_pc \in {"wait", "process"}

\* the frames of the file that hold object id
FramesWith(id) ==
    {i \in DOMAIN json_file : \E j \in DOMAIN json_file[i].objects :
                                 json_file[i].objects[j].id = id}

\* the frame with the largest id of those that hold object id
LastFrameWith(id) ==
    CHOOSE i \in FramesWith(id) :
        \A j \in FramesWith(id) : ParseInt(json_file[j].key) <= ParseInt(json_file[i].key)

\* the position of object id in frame i of the file
PositionIn(i, id) ==
    LET objects == json_file[i].objects
    IN objects[CHOOSE j \in DOMAIN objects : objects[j].id = id].t

\* the objects of the world with the name of object id
ObjectsOf(id) == {i \in DOMAIN world_objects : world_objects[i].name = <<"episode_object_">> \o id}

ObjectIds == {<<"5">>, <<"7">>}

\* C14: the world never holds two objects of one name, and after the replay each
\* object is at the position of the last frame that holds its id, taken to the map
\* frame: (x, y, z) of the camera frame is (x, z, 1 m - y) of the map.
C14_OneObjectLastPose ==
    /\ \A id \in ObjectIds : Cardinality(ObjectsOf(id)) <= 1
    /\ player_pc = "done" =>
         \A id \in ObjectIds :
            IF FramesWith(id) = {} THEN ObjectsOf(id) = {}
            ELSE \E i \in ObjectsOf(id) :
                    LET t == PositionIn(LastFrameWith(id), id)
                    IN world_objects[i].pose = <<t[1], t[3], 1000 - t[2]>>

\* frame 1 brings object 7, frame 2 moves it: one object, at the position of frame 2
C14_Witness ==
    /\ player_pc = "done"
    /\ Len(json_file) = 2
    /\ json_file[1] = [key |-> <<"1">>, objects |-> <<[id |-> <<"7">>, t |-> <<1000, 0, 0>>]>>]
    /\ json_file[2] = [key |-> <<"2">>, objects |-> <<[id |-> <<"7">>, t |-> <<0, 2000, 3000>>]>>]
    /\ world_objects = <<[name |-> <<"episode_object_", "7">>, pose |-> <<0, 3000, -1000>>]>>

\* C15: a player given a set of object ids to ignore is built and creates no object
\* for an id of the set.
C15_IgnoreSetRespected ==
    ignore_arg.given =>
        /\ player_pc # "type_error"
        /\ \A id \in ignore_arg.ids : ObjectsOf(id) = {}

(***************************************************************************)
(* Properties of the registry of loggers                                   *)
(***************************************************************************)
\* C16: once EventLogger.current_logger is not None its value never changes, also
\* when loggers are constructed by different threads at the same time.
C16_NeverOverwritten ==
    [][current_logger # None => current_logger' = current_logger]_vars

(***************************************************************************)
(* Properties of the event objects                                         *)
(***************************************************************************)
\* C17: two TranslationEvents of one tracked object with different timestamps are
\* not equal; two contact events of one class, one tracked object and one
\* with-object with different timestamps are equal.
C17_TimestampInEquality ==
    (ev_result.op = "eq" /\ ev_a.cls = ev_b.cls /\ ev_a.timestamp # ev_b.timestamp
     /\ ev_a.tracked_object = ev_b.tracked_object)
        => /\ ev_a.cls = "TranslationEvent" => ~ev_result.value
           /\ (ev_a.cls \in ContactClasses \cup LossOfContactClasses
               /\ ev_a.with_object = ev_b.with_object) => ev_result.value

\* two ContactEvents of the cup and the table, at times 1 and 2, compared equal
C17_Witness ==
    /\ ev_result.op = "eq"
    /\ ev_result.value
    /\ ev_a.cls = "ContactEvent" /\ ev_b.cls = "ContactEvent"
    /\ ev_a.tracked_object = <<"cup">> /\ ev_b.tracked_object = <<"cup">>
    /\ ev_a.with_object = <<"table">> /\ ev_b.with_object = <<"table">>
    /\ ev_a.timestamp = 1 /\ ev_b.timestamp = 2

\* C19: once record_end_timestamp was called, end_timestamp >= timestamp, and
\* duration() is not negative; before the call end_timestamp is None and
\* duration() returns None.
C19_EndNotBeforeStart ==
    /\ ev_a.end_timestamp # None => FloatValue(ev_a.end_timestamp) >= ev_a.timestamp
    /\ ev_result.op = "duration" =>
         IF ev_a.end_timestamp = None THEN ev_result.value = None
         ELSE ev_result.value # None /\ FloatValue(ev_result.value) >= 0

\* C20: for a contact event of any class built with no contact points, reading
\* main_link and set_color do not raise; main_link gives None with a warning.
C20_ZeroPointsTolerated ==
    (ev_result.op \in {"main_link", "set_color"}
     /\ ev_a.contact_points = <<>> /\ ev_a.latest_contact_points = <<>>)
        => /\ ev_result.result.raised = "no"
           /\ ev_result.result.warned
           /\ ev_result.op = "main_link" => ev_result.result.value = None

\* the fields that define an event of class cls, as a tuple of the event's values:
\* tracked object, start pose and timestamp of a motion event, the tracked object of
\* a new object event, the two objects of a contact event, agent and object of an
\* interaction event
DefiningFields(event) ==
    IF event.start_pose # None
    THEN <<event.tracked_object, event.start_pose, event.timestamp>>
    ELSE <<event.tracked_object, event.with_object, event.agent, event.participating_object>>

\* C23: two events of one class whose defining fields match are equal, so every
\* event is equal to itself, and two events that are equal have the same hash.
C23_EqualityContract ==
    ev_result.op = "eq" =>
        /\ (ev_a.cls = ev_b.cls /\ DefiningFields(ev_a) = DefiningFields(ev_b))
             => ev_result.value
        /\ ev_result.value => ev_result.hash_a = ev_result.hash_b

=============================================================================
